---- MODULE Spec2Model ----
(***************************************************************************)
(* Model of pytube/cipher.py: the signature primitives, the shape matcher  *)
(* map_functions, the initial-function-name search, the Cipher constructor *)
(* and the per-call methods get_signature and calculate_n.                 *)
(*                                                                         *)
(* A str is a sequence of one-character strings; a list of str is a        *)
(* sequence of such sequences, so list(s) and "".join(xs) are conversions. *)
(* A call returns a record [exc, val]: exc = "" on a normal return.        *)
(***************************************************************************)
EXTENDS Integers, Sequences, FiniteSets, TLC

VARIABLES
    js,                \* the script blob the Cipher is built from
    status,            \* "new", "ready" (constructor returned) or "raised"
    transform_plan,    \* Cipher.transform_plan
    transform_map,     \* Cipher.transform_map
    throttling_plan,   \* Cipher.throttling_plan
    throttling_array,  \* Cipher.throttling_array
    calculated_n,      \* Cipher.calculated_n
    parse_cache,       \* memo of Cipher.parse_function
    arg,               \* the input of the pure function under test
    call,              \* the last call: operation, input, outcome
    ref,               \* history: one earlier get_signature call
    first_n,           \* history: what the first calculate_n call returned
    threads,           \* the frame of calculate_n in each thread that shares the Cipher
    writes             \* history: how many times a thread assigned calculated_n

vars == <<js, status, transform_plan, transform_map, throttling_plan,
          throttling_array, calculated_n, parse_cache, arg, call, ref, first_n,
          threads, writes>>

cipher_fields == <<transform_plan, transform_map, throttling_plan,
                   throttling_array, calculated_n, parse_cache>>

----------------------------------------------------------------------------
(* Bounds *)

MaxLen == 3        \* longest generated signature
MaxB == 5          \* primitive operands range over -MaxB..MaxB
MaxPlan == 2       \* longest generated transform plan
MaxArg == 2        \* largest operand written in a generated plan

Chars == {"A", "B", "C"}

RECURSIVE SeqsUpTo(_, _)
SeqsUpTo(S, n) ==
    IF n = 0 THEN {<<>>}
    ELSE LET shorter == SeqsUpTo(S, n - 1)
         IN  shorter \cup {Append(s, x) : s \in {t \in shorter : Len(t) = n - 1}, x \in S}

Min(a, b) == IF a < b THEN a ELSE b
Max(a, b) == IF a > b THEN a ELSE b

----------------------------------------------------------------------------
(* Python values *)

Ok(v) == [exc |-> "", val |-> v]
Raise(e) == [exc |-> e, val |-> <<>>]

None == [none |-> TRUE, val |-> <<>>]
Some(v) == [none |-> FALSE, val |-> v]

\* bool(x) of an optional str: None and "" are falsy
Truthy(x) == ~x.none /\ x.val # <<>>

\* list(s)
list(s) == [i \in 1..Len(s) |-> <<s[i]>>]

\* "".join(xs)
RECURSIVE join(_)
join(xs) == IF xs = <<>> THEN <<>> ELSE Head(xs) \o join(Tail(xs))

\* one index of a slice: a negative index counts from the end, then clamped
SliceIndex(i, n) == IF i < 0 THEN Max(i + n, 0) ELSE Min(i, n)

\* s[lo:hi] on zero-based indices
PySlice(s, lo, hi) ==
    LET a == SliceIndex(lo, Len(s))
        z == SliceIndex(hi, Len(s))
    IN  IF a >= z THEN <<>> ELSE SubSeq(s, a + 1, z)

----------------------------------------------------------------------------
(* The signature primitives *)

\* a rotation by one place in the stead of the mirror image
reverse_rotate(arr, b) == IF arr = <<>> THEN <<>> ELSE Tail(arr) \o <<Head(arr)>>

reverse(arr, b) == [i \in 1..Len(arr) |-> arr[Len(arr) + 1 - i]]

\* the docstring's example ([1, 2, 3, 4], 2 -> [1, 2]): keeps what it should drop
splice_head(arr, b) == PySlice(arr, 0, b)

splice(arr, b) == PySlice(arr, b, Len(arr))

\* the reduced operand, as a one-character str, stored in position 0
swap_store(arr, b) ==
    IF Len(arr) = 0 THEN Raise("ZeroDivisionError")
    ELSE Ok(<< <<ToString(b % Len(arr))>> >> \o Tail(arr))

swap(arr, b) ==
    IF Len(arr) = 0 THEN Raise("ZeroDivisionError")
    ELSE LET r == b % Len(arr)
         IN  Ok(<<arr[r + 1]>> \o PySlice(arr, 1, r) \o <<arr[1]>>
                \o PySlice(arr, r + 1, Len(arr)))

----------------------------------------------------------------------------
(* Pure-function harness: the primitives on drawn inputs *)

NoCall == [op |-> "none"]
NoObj == [var |-> "", entries |-> <<>>]
NoArr == [var |-> "", items |-> <<>>]
NoJs == [sites |-> <<>>, body |-> <<>>, obj |-> NoObj, arr |-> NoArr]
NoArg == [arr |-> <<>>, b |-> 0]
NoThreads == <<>>

Idle ==
    /\ status = "new"
    /\ transform_plan = <<>>
    /\ transform_map = <<>>
    /\ throttling_plan = <<>>
    /\ throttling_array = <<>>
    /\ calculated_n = None
    /\ parse_cache = <<>>
    /\ call = NoCall
    /\ ref = None
    /\ first_n = None
    /\ threads = NoThreads
    /\ writes = 0

InitPrim ==
    /\ Idle
    /\ js = NoJs
    /\ arg \in [arr : SeqsUpTo(Chars, MaxLen), b : (0 - MaxB)..MaxB]

CallReverse ==
    /\ call = NoCall
    /\ call' = [op |-> "reverse", out |-> Ok(reverse(arg.arr, arg.b))]
    /\ UNCHANGED <<js, status, cipher_fields, arg, ref, first_n, threads, writes>>

CallSplice ==
    /\ call = NoCall
    /\ call' = [op |-> "splice", out |-> Ok(splice(arg.arr, arg.b))]
    /\ UNCHANGED <<js, status, cipher_fields, arg, ref, first_n, threads, writes>>

CallSwap ==
    /\ call = NoCall
    /\ call' = [op |-> "swap", out |-> swap(arg.arr, arg.b)]
    /\ UNCHANGED <<js, status, cipher_fields, arg, ref, first_n, threads, writes>>

NextPrim == CallReverse \/ CallSplice \/ CallSwap

SpecPrim == InitPrim /\ [][NextPrim]_vars

----------------------------------------------------------------------------
(* C1: swap(s, b) on a non-empty s and b >= 0 returns s with positions 0   *)
(* and r = b mod len(s) exchanged, every other position unchanged and the  *)
(* length kept; with r = 0 the result is s.                                *)

Exchanged(s, r) ==
    [i \in 1..Len(s) |-> IF i = 1 THEN s[r + 1] ELSE IF i = r + 1 THEN s[1] ELSE s[i]]

C1_SwapExchanges ==
    (call.op = "swap" /\ arg.arr # <<>> /\ arg.b >= 0) =>
        /\ call.out.exc = ""
        /\ call.out.val = Exchanged(arg.arr, arg.b % Len(arg.arr))

----------------------------------------------------------------------------
(* C7 as stated: for every non-empty s and every integer b, negative ones  *)
(* included, splice(s, b) has length max(0, len(s) - b).                   *)

----------------------------------------------------------------------------
(* The shape matcher.  A primitive body text is described by what the      *)
(* regular expressions of map_functions can tell apart:                    *)
(*   closed  FALSE for the fragment "function(a" (no closing parenthesis)  *)
(*   params  1 for function(a){..}, 2 for function(a,b){..}                *)
(*   core    the statement(s) between the braces                           *)
(*   ws      a blank after "{" and before "}"                              *)
(*   longid  the array is named by a two-letter identifier                 *)

Cores == {"reverse", "splice", "swap", "swapmod", "push", "splice1", "empty"}

CutBody == [closed |-> FALSE, params |-> 1, core |-> "empty", ws |-> FALSE, longid |-> FALSE]

JsFuncs ==
    [closed : {TRUE}, params : {1, 2}, core : Cores, ws : BOOLEAN, longid : BOOLEAN]
        \cup {CutBody}

\* re.search(pattern k of mapper, js_func)
ShapeSearch(k, f) ==
    LET tight == f.closed /\ ~f.ws /\ ~f.longid
    IN  CASE k = 1 -> tight /\ f.core = "reverse"
          [] k = 2 -> tight /\ f.core = "splice"
          [] k = 3 -> tight /\ f.core = "swap"
          [] k = 4 -> tight /\ f.core = "swapmod"
          [] k \in {5, 6} -> f.closed /\ f.core = "reverse"
          [] k \in {7, 8} -> f.closed /\ f.core = "splice"
          [] k \in {9, 10} -> f.closed /\ f.core = "swap"
          [] k = 11 -> f.closed

mapper ==
    << "reverse", "splice", "swap", "swap", "reverse", "reverse",
       "splice", "splice", "swap", "swap", "reverse" >>

\* the behaviour of the upstream matcher: no shape, no primitive
map_functions_strict(js_func) ==
    LET hits == {k \in 1..Len(mapper) : ShapeSearch(k, js_func)}
    IN  IF hits = {} THEN Raise("RegexMatchError")
        ELSE Ok(mapper[CHOOSE k \in hits : \A j \in hits : k <= j])

map_functions(js_func) ==
    LET hits == {k \in 1..Len(mapper) : ShapeSearch(k, js_func)}
    IN  IF hits = {} THEN Ok("reverse")
        ELSE Ok(mapper[CHOOSE k \in hits : \A j \in hits : k <= j])

InitMap ==
    /\ Idle
    /\ js = NoJs
    /\ arg \in [js_func : JsFuncs]

CallMapFunctions ==
    /\ call = NoCall
    /\ call' = [op |-> "map_functions", out |-> map_functions(arg.js_func)]
    /\ UNCHANGED <<js, status, cipher_fields, arg, ref, first_n, threads, writes>>

NextMap == CallMapFunctions

SpecMap == InitMap /\ [][NextMap]_vars

----------------------------------------------------------------------------
(* C10: map_functions never raises and returns reverse, splice or swap;    *)
(* the first shape of the list that matches decides, and a body that       *)
(* matches no reverse, splice or swap shape is classified as reverse.      *)

C10_MapFunctionsTotal ==
    call.op = "map_functions" =>
        /\ call.out.exc = ""
        /\ call.out.val \in {"reverse", "splice", "swap"}
        /\ \A k \in 1..11 :
              (ShapeSearch(k, arg.js_func) /\ \A j \in 1..(k - 1) : ~ShapeSearch(j, arg.js_func))
                  => call.out.val = mapper[k]
        /\ (\A k \in 1..10 : ~ShapeSearch(k, arg.js_func)) => call.out.val = "reverse"

C10_Witness ==
    /\ call.op = "map_functions"
    /\ arg.js_func = CutBody
    /\ call.out = Ok("reverse")

----------------------------------------------------------------------------
(* The initial-function-name search.  The script is a sequence of sites,   *)
(* in textual order; a site is one occurrence of a shape the patterns      *)
(* look for, with the identifier NAME written there:                       *)
(*   def       ;NAME=function(a){a=a.split("")                             *)
(*   vardef    var NAME=function(a){a=a.split("")                          *)
(*   arrow     ;NAME=a=>{a=a.split("")                                     *)
(*   paramdef  ;NAME=function(b){b=b.split("")                             *)
(*   commadef  ,NAME=function(a){a=a.split("")                             *)
(*   set_enc   c&&d.set("sig",encodeURIComponent(NAME(                     *)
(*   set       c&&d.set("sig",NAME(                                        *)
(*   mdec      m=NAME(decodeURIComponent(                                  *)
(*   guard     X&&(X=NAME(decodeURIComponent(X))     (aux is X)            *)
(*   sigprop   "signature",NAME(                     (aux is the quote)    *)
(*   sigor     .sig||NAME(                                                 *)

js_builtins ==
    { "decodeURIComponent", "encodeURIComponent", "decodeURI", "encodeURI",
      "escape", "unescape", "parseInt", "parseFloat", "isNaN", "isFinite",
      "eval", "Function", "Object", "Array", "String", "Number", "Boolean",
      "Date", "Math", "JSON", "RegExp", "Error", "Promise", "Map", "Set",
      "console", "window", "document", "undefined", "null", "true", "false",
      "NaN", "Infinity", "this", "arguments", "prototype", "constructor",
      "toString", "valueOf", "hasOwnProperty", "length", "split", "join",
      "reverse", "splice", "slice", "concat", "push", "pop", "shift", "unshift" }

\* identifiers of one character do not satisfy {2,}
OneLetter == {"x"}

\* the groups pattern k of function_patterns captures at a site, <<>> if it
\* does not match there.  Patterns by their place in the list: 1-4 the
\* definition shapes (PRIORITY 1-4), 5 and 6 the two d.set shapes (PRIORITY
\* 5), 7 m=NAME(decodeURIComponent( (PRIORITY 6), 8 the guard shape (PRIORITY
\* 7), 9 "signature",NAME( and 10 .sig||NAME( (PRIORITY 8).
SiteGroups(k, s) ==
    LET long == s.name \notin OneLetter
        one == IF long THEN <<s.name>> ELSE <<>>
        two == IF long THEN <<s.aux, s.name>> ELSE <<>>
    IN  CASE s.shape = "def" -> IF k \in {1, 4} THEN one ELSE <<>>
          [] s.shape = "vardef" -> IF k \in {1, 2, 4} THEN one ELSE <<>>
          [] s.shape = "arrow" -> IF k = 3 THEN one ELSE <<>>
          [] s.shape = "paramdef" -> IF k = 4 THEN one ELSE <<>>
          [] s.shape = "commadef" -> <<>>
          [] s.shape = "set_enc" ->
                IF k = 5 THEN one
                ELSE IF k = 6 THEN (IF long THEN one ELSE <<"encodeURIComponent">>)
                ELSE <<>>
          [] s.shape = "set" -> IF k = 6 THEN one ELSE <<>>
          [] s.shape = "mdec" -> IF k = 7 THEN one ELSE <<>>
          [] s.shape = "guard" -> IF k = 8 THEN two ELSE <<>>
          [] s.shape = "sigprop" -> IF k = 9 THEN two ELSE <<>>
          [] s.shape = "sigor" -> IF k = 10 THEN one ELSE <<>>

\* regex.search(js).groups() for pattern k: the leftmost match, <<>> if none
PatternSearch(k, sites) ==
    LET hits == {i \in 1..Len(sites) : SiteGroups(k, sites[i]) # <<>>}
    IN  IF hits = {} THEN <<>>
        ELSE SiteGroups(k, sites[CHOOSE i \in hits : \A j \in hits : i <= j])

NumPatterns == 10

\* the search without the builtin filter
RECURSIVE get_initial_function_name_any(_, _)
get_initial_function_name_any(script, k) ==
    IF k > NumPatterns THEN Raise("RegexMatchError")
    ELSE LET groups == PatternSearch(k, script.sites)
         IN  IF groups # <<>> THEN Ok(groups[1])
             ELSE get_initial_function_name_any(script, k + 1)

\* get_initial_function_name(js), from pattern k on
RECURSIVE get_initial_function_name(_, _)
get_initial_function_name(script, k) ==
    IF k > NumPatterns THEN Raise("RegexMatchError")
    ELSE LET groups == PatternSearch(k, script.sites)
             valid == SelectSeq(groups, LAMBDA g : g # "" /\ g \notin js_builtins)
         IN  IF groups # <<>> /\ valid # <<>> THEN Ok(valid[1])
             ELSE get_initial_function_name(script, k + 1)

MaxSites == 2

SiteNames == {"Xy", "Qz", "x", "split"}

Sites ==
    [shape : {"def", "vardef", "arrow", "paramdef", "commadef", "set_enc",
              "set", "mdec", "sigor"}, name : SiteNames, aux : {""}]
    \cup [shape : {"guard"}, name : SiteNames, aux : {"c", "this"}]
    \cup [shape : {"sigprop"}, name : SiteNames, aux : {"\"", "'"}]

InitName ==
    /\ Idle
    /\ arg = NoArg
    /\ \E sites \in SeqsUpTo(Sites, MaxSites) \ {<<>>} :
          js = [NoJs EXCEPT !.sites = sites]

CallGetInitialFunctionName ==
    /\ call = NoCall
    /\ call' = [op |-> "get_initial_function_name", out |-> get_initial_function_name(js, 1)]
    /\ UNCHANGED <<js, status, cipher_fields, arg, ref, first_n, threads, writes>>

NextName == CallGetInitialFunctionName

SpecName == InitName /\ [][NextName]_vars

\* the patterns that match somewhere in the script
Matching == {k \in 1..NumPatterns : PatternSearch(k, js.sites) # <<>>}
FirstMatching == CHOOSE k \in Matching : \A j \in Matching : k <= j

\* the patterns that capture a name outside js_builtins
Yielding ==
    {k \in Matching : \E i \in 1..Len(PatternSearch(k, js.sites)) :
        PatternSearch(k, js.sites)[i] \notin js_builtins}
FirstYielding == CHOOSE k \in Yielding : \A j \in Yielding : k <= j

----------------------------------------------------------------------------
(* C5: when the first pattern that matches the script is the shape         *)
(* X&&(X=NAME(decodeURIComponent(X))) or "signature",NAME( the function    *)
(* returns NAME, not X and not the quote character.                        *)

C5_ReturnsCalledName ==
    (call.op = "get_initial_function_name" /\ Matching # {} /\ FirstMatching \in {8, 9}) =>
        /\ call.out.exc = ""
        /\ call.out.val = PatternSearch(FirstMatching, js.sites)[2]

----------------------------------------------------------------------------
(* C6: get_initial_function_name never returns a builtin name; patterns    *)
(* are tried in order, one whose captures are all builtins is skipped, the *)
(* first one that yields a non-builtin name decides, and with none the     *)
(* function raises RegexMatchError.                                        *)

C6_NeverBuiltin ==
    call.op = "get_initial_function_name" =>
        /\ call.out.exc = "" => call.out.val \notin js_builtins
        /\ Yielding = {} <=> call.out.exc = "RegexMatchError"
        /\ Yielding # {} =>
              /\ call.out.exc = ""
              /\ \E i \in 1..Len(PatternSearch(FirstYielding, js.sites)) :
                    call.out.val = PatternSearch(FirstYielding, js.sites)[i]

C6_Witness ==
    /\ call.op = "get_initial_function_name"
    /\ Matching # {} /\ Yielding # {}
    /\ FirstMatching < FirstYielding
    /\ call.out.exc = ""

----------------------------------------------------------------------------
(* The script as the Cipher constructor reads it.                          *)
(*   js.sites  the sites of the initial-function-name search               *)
(*   js.body   the statements between a=a.split("") and return a.join("")  *)
(*             of the initial function, in order                           *)
(*   js.obj    the object literal  var <var>={<entries>};                  *)
(*   js.arr    the array literal   <var>=[<items>]   (var "" when absent)  *)
(* A statement is  [shape, obj, name, arr, k, arg]:                        *)
(*   dot      obj.name(a,arg)          quoted   obj["name"](a,arg)         *)
(*   indexed  obj[arr[k]](a,arg)       native   obj.name()                 *)
(*   decl     var c=0                                                      *)
(* arg is the operand as written, a sequence of decimal digits.            *)
(* An entry of the object literal is [name, quoted, body], body a          *)
(* primitive body text as described for the shape matcher.                 *)

Dot(obj, name, digits) ==
    [shape |-> "dot", obj |-> obj, name |-> name, arr |-> "", k |-> 0, arg |-> digits]
Quoted(obj, name, digits) ==
    [shape |-> "quoted", obj |-> obj, name |-> name, arr |-> "", k |-> 0, arg |-> digits]
Indexed(obj, array, k, digits) ==
    [shape |-> "indexed", obj |-> obj, name |-> "", arr |-> array, k |-> k, arg |-> digits]
Native(obj, name) ==
    [shape |-> "native", obj |-> obj, name |-> name, arr |-> "", k |-> 0, arg |-> <<>>]
Decl == [shape |-> "decl", obj |-> "", name |-> "", arr |-> "", k |-> 0, arg |-> <<>>]
\* the first and the last statement of the initial function, p its parameter:
\* p=p.split("") and return p.join("")
SplitStmt(p) ==
    [shape |-> "split", obj |-> p, name |-> "split", arr |-> "", k |-> 0, arg |-> <<>>]
ReturnStmt(p) ==
    [shape |-> "return", obj |-> p, name |-> "join", arr |-> "", k |-> 0, arg |-> <<>>]

\* int(fn_arg) of a \d+ match
RECURSIVE int(_)
int(digits) ==
    IF digits = <<>> THEN 0
    ELSE 10 * int(SubSeq(digits, 1, Len(digits) - 1)) + digits[Len(digits)]

\* the uncached body of Cipher.parse_function: the three js_func_patterns in order
parse_function(js_func) ==
    CASE js_func.shape = "dot" ->
            Ok([fn_name |-> js_func.name, fn_arg |-> int(js_func.arg)])
      [] js_func.shape = "quoted" ->
            Ok([fn_name |-> "\"" \o js_func.name \o "\"", fn_arg |-> int(js_func.arg)])
      [] js_func.shape = "indexed" ->
            Ok([fn_name |-> js_func.arr \o "[" \o ToString(js_func.k) \o "]",
                fn_arg |-> int(js_func.arg)])
      [] OTHER -> Raise("RegexMatchError")

\* @cache on parse_function: a memo keyed by the literal call text; a call
\* that raises stores nothing.  Returns the outcome, the memo and whether the
\* memo served the call.
cache(memo, js_func) ==
    IF js_func \in DOMAIN memo
    THEN [out |-> Ok(memo[js_func]), memo |-> memo, hit |-> 1]
    ELSE LET r == parse_function(js_func)
         IN  [out |-> r,
              memo |-> IF r.exc = "" THEN memo @@ (js_func :> r.val) ELSE memo,
              hit |-> 0]

\* self.transform_map[name](signature, argument), the map already looked up
ApplyPrimitive(fn, signature, argument) ==
    CASE fn = "reverse" -> Ok(reverse(signature, argument))
      [] fn = "splice" -> Ok(splice(signature, argument))
      [] fn = "swap" -> swap(signature, argument)

\* the loop of get_signature from plan item i on; trace is the joined buffer
\* after each call (what the debug log prints)
RECURSIVE run_plan(_, _, _, _, _, _)
run_plan(plan, i, signature, memo, trace, hits) ==
    IF i > Len(plan)
    THEN [out |-> Ok(join(signature)), memo |-> memo, trace |-> trace, hits |-> hits]
    ELSE LET p == cache(memo, plan[i])
         IN  IF p.out.exc # ""
             THEN [out |-> Raise(p.out.exc), memo |-> p.memo, trace |-> trace, hits |-> hits]
             ELSE IF p.out.val.fn_name \notin DOMAIN transform_map
             THEN [out |-> Raise("KeyError"), memo |-> p.memo, trace |-> trace, hits |-> hits]
             ELSE LET r == ApplyPrimitive(transform_map[p.out.val.fn_name],
                                          signature, p.out.val.fn_arg)
                  IN  IF r.exc # ""
                      THEN [out |-> Raise(r.exc), memo |-> p.memo, trace |-> trace,
                            hits |-> hits]
                      ELSE run_plan(plan, i + 1, r.val, p.memo,
                                    Append(trace, join(r.val)), hits + p.hit)

\* the plan walked from its last call to its first
get_signature_backwards(ciphered_signature) ==
    run_plan(reverse(transform_plan, 0), 1, list(ciphered_signature), parse_cache, <<>>, 0)

\* the memo guard of calculate_n in front of the loop
get_signature_memoized(ciphered_signature) ==
    IF Truthy(calculated_n)
    THEN [out |-> Ok(calculated_n.val), memo |-> parse_cache, trace |-> <<>>, hits |-> 0]
    ELSE run_plan(transform_plan, 1, list(ciphered_signature), parse_cache, <<>>, 0)

get_signature(ciphered_signature) ==
    run_plan(transform_plan, 1, list(ciphered_signature), parse_cache, <<>>, 0)

----------------------------------------------------------------------------
(* Extraction *)

DefShapes == {"def", "vardef", "arrow", "paramdef", "commadef"}

\* the filter of get_transform_plan: a "." or "[" and a "("
IsCall(stmt) == stmt.shape \in {"dot", "quoted", "indexed", "native"}

\* the pattern loop of get_transform_plan for the escaped name: the body of
\* the function that bears the name, split on ";" and filtered; no such
\* function exhausts every pattern.  With no call between the split and the
\* return, the patterns that capture that stretch yield an empty plan and the
\* last one, which captures the whole body of a function(...){...}, yields
\* the split and the return statement themselves; an arrow function has no
\* such pattern.
transform_plan_patterns(script, name) ==
    LET plan == SelectSeq(script.body, IsCall)
        defs == {i \in 1..Len(script.sites) :
                    /\ script.sites[i].shape \in DefShapes
                    /\ script.sites[i].name = name}
        def == script.sites[CHOOSE i \in defs : \A j \in defs : i <= j]
        p == IF def.shape = "paramdef" THEN "b" ELSE "a"
    IN  IF defs = {} THEN Raise("RegexMatchError")
        ELSE IF plan # <<>> THEN Ok(plan)
        ELSE IF def.shape = "arrow" THEN Raise("RegexMatchError")
        ELSE Ok(<<SplitStmt(p), ReturnStmt(p)>>)

\* get_transform_plan(js)
get_transform_plan(script) ==
    LET name == get_initial_function_name(script, 1)
    IN  IF name.exc # "" THEN Raise(name.exc)
        ELSE transform_plan_patterns(script, name.val)

\* get_transform_object(js, var): the literal of var split at the commas of
\* brace depth 0.  The comma between the parameters of function(a,b) is at
\* depth 0, so such an entry is cut to  name:function(a  and its remainder,
\* which has no ":", is filtered out.
get_transform_object(script, var) ==
    IF script.obj.var # var THEN Raise("RegexMatchError")
    ELSE Ok([i \in 1..Len(script.obj.entries) |->
              LET e == script.obj.entries[i]
              IN  [name |-> IF e.quoted THEN "\"" \o e.name \o "\"" ELSE e.name,
                   function |-> IF e.body.closed /\ e.body.params = 2
                                THEN CutBody ELSE e.body]])

\* get_transform_map(js, var): a dict, the last entry of a name wins
get_transform_map(script, var) ==
    LET transform_object == get_transform_object(script, var)
        objs == transform_object.val
        names == {objs[i].name : i \in 1..Len(objs)}
        last(n) == CHOOSE i \in 1..Len(objs) :
                      /\ objs[i].name = n
                      /\ \A j \in 1..Len(objs) : objs[j].name = n => j <= i
    IN  IF transform_object.exc # "" THEN Raise(transform_object.exc)
        ELSE Ok([n \in names |-> map_functions(objs[last(n)].function).val])

\* a fallback that picks the entry by the index written in the call
resolve_from_object_definition_by_index(script, plan, obj_var) ==
    LET entries == script.obj.entries
        found == script.obj.var = obj_var /\ entries # <<>> /\ ~entries[1].quoted
    IN  IF ~found THEN [plan |-> plan, var |-> ""]
        ELSE [plan |-> [i \in 1..Len(plan) |->
                          IF plan[i].shape = "indexed" /\ plan[i].obj = obj_var
                          THEN Dot(obj_var, entries[(plan[i].k % Len(entries)) + 1].name,
                                   plan[i].arg)
                          ELSE plan[i]],
              var |-> obj_var]

\* resolve_from_object_definition(js, transform_plan, obj_var); var "" is None.
\* [^}]+ ends the literal's content at the first "}", so only the first entry
\* can be listed, and a quoted name does not match (\w+)\s*:
resolve_from_object_definition(script, plan, obj_var) ==
    LET found == script.obj.var = obj_var /\ script.obj.entries # <<>>
        function_matches ==
            IF found /\ ~script.obj.entries[1].quoted
            THEN <<script.obj.entries[1].name>> ELSE <<>>
    IN  IF function_matches = <<>> THEN [plan |-> plan, var |-> ""]
        ELSE [plan |-> [i \in 1..Len(plan) |->
                          IF plan[i].shape = "indexed" /\ plan[i].obj = obj_var
                          THEN Dot(obj_var, function_matches[1], plan[i].arg)
                          ELSE plan[i]],
              var |-> obj_var]

\* resolve_array_transform_plan(js, transform_plan); var "" is None.  The
\* loop rebinds obj_var, so the variable returned is that of the last
\* indexed item.
resolve_array_transform_plan(script, plan) ==
    LET first_item == plan[1]
        array_items == [i \in 1..Len(script.arr.items) |-> script.arr.items[i].name]
        indexed == {i \in 1..Len(plan) : plan[i].shape = "indexed"}
        last_indexed == CHOOSE i \in indexed : \A j \in indexed : j <= i
    IN  IF first_item.shape # "indexed" THEN [plan |-> plan, var |-> ""]
        ELSE IF script.arr.var # first_item.arr \/ script.arr.items = <<>>
        THEN resolve_from_object_definition(script, plan, first_item.obj)
        ELSE [plan |-> [i \in 1..Len(plan) |->
                          IF plan[i].shape = "indexed" /\ plan[i].k < Len(array_items)
                          THEN Dot(plan[i].obj, array_items[plan[i].k + 1], plan[i].arg)
                          ELSE plan[i]],
              var |-> plan[last_indexed].obj]

\* the else branch of __init__, var_regex having matched the first item: the
\* leading identifier of the first item,
\* "this" replaced by the first other identifier of the plan, else by the
\* variable of an object literal with a function in the script
object_variable(script, plan) ==
    LET var == plan[1].obj
        others == {i \in 1..Len(plan) : plan[i].obj # "this"}
    IN  IF var # "this" THEN var
        ELSE IF others # {} THEN plan[CHOOSE i \in others : \A j \in others : i <= j].obj
        ELSE IF script.obj.var # "" /\ script.obj.entries # <<>> THEN script.obj.var
        ELSE "this"

\* __init__ from the resolution of the plan on: the object variable, the
\* map and the fields, or the exception
transform_fields(script, raw, resolved) ==
    LET plan == IF resolved.var # "" THEN resolved.plan ELSE raw
        var == IF resolved.var # "" THEN resolved.var ELSE object_variable(script, raw)
        map == get_transform_map(script, var)
    IN  \* var_regex wants "." "[" or "(" after the leading identifier
        IF resolved.var = "" /\ raw[1].shape = "split" THEN Raise("RegexMatchError")
        ELSE IF map.exc # "" THEN Raise(map.exc)
        ELSE Ok([transform_plan |-> plan, transform_map |-> map.val])

\* Cipher.__init__(js): the fields, or the exception
Cipher(script) ==
    LET raw == get_transform_plan(script)
    IN  IF raw.exc # "" THEN Raise(raw.exc)
        ELSE transform_fields(script, raw.val,
                              resolve_array_transform_plan(script, raw.val))

\* get_throttling_plan(js) and get_throttling_function_array(js): throttling
\* was removed upstream, both return []
get_throttling_plan(script) == <<>>

\* an array that still holds the placeholder of the caller's list
get_throttling_function_array_placeholder(script) ==
    << [kind |-> "str", num |-> 0, name |-> "b", items |-> <<>>] >>

get_throttling_function_array(script) == <<>>

----------------------------------------------------------------------------
(* The throttling primitives.  They change their list in place and return  *)
(* None: the outcome of a call is [exc, val] with val the list after the   *)
(* call.  js_splice also returns a value: its outcome is [exc, val, arr]   *)
(* with val the deleted elements and arr the list after the call.          *)

throttling_reverse(arr) == Ok(reverse(arr, 0))

throttling_push(d, e) == Ok(Append(d, e))

\* (e % len(d) + len(d)) % len(d); % by zero raises
throttling_mod_func(d, e) ==
    IF Len(d) = 0 THEN Raise("ZeroDivisionError")
    ELSE Ok(((e % Len(d)) + Len(d)) % Len(d))

throttling_unshift(d, e) ==
    LET m == throttling_mod_func(d, e)
    IN  IF m.exc # "" THEN Raise(m.exc)
        ELSE Ok(PySlice(d, 0 - m.val, Len(d)) \o PySlice(d, 0, 0 - m.val))

\* the start adjustment of js_splice (the try block; an int never raises)
js_splice_start(arr, start) ==
    LET clamped == IF start > Len(arr) THEN Len(arr) ELSE start
    IN  IF clamped < 0 THEN Len(arr) - clamped ELSE clamped

\* js_splice(arr, start, delete_count, *items); delete_count None when omitted
js_splice(arr, start, delete_count, items) ==
    LET from == js_splice_start(arr, start)
        count == IF delete_count.none THEN Len(arr) - from
                 ELSE IF delete_count.val = 0 \/ delete_count.val >= Len(arr) - from
                 THEN Len(arr) - from
                 ELSE delete_count.val
    IN  [exc |-> "",
         val |-> PySlice(arr, from, from + count),
         arr |-> PySlice(arr, 0, from) \o items \o PySlice(arr, from + count, Len(arr))]

\* the inner splice alone: d[0] written over d[e], nothing put back at 0
throttling_nested_splice_inner(d, e) ==
    LET m == throttling_mod_func(d, e)
    IN  IF m.exc # "" THEN Raise(m.exc)
        ELSE Ok(js_splice(d, m.val, Some(1), <<d[1]>>).arr)

throttling_nested_splice(d, e) ==
    LET m == throttling_mod_func(d, e)
        inner_splice == js_splice(d, m.val, Some(1), <<d[1]>>)
    IN  IF m.exc # "" THEN Raise(m.exc)
        ELSE IF inner_splice.val = <<>> THEN Raise("IndexError")
        ELSE Ok(js_splice(inner_splice.arr, 0, Some(1), <<inner_splice.val[1]>>).arr)

\* the assert compares the lengths before and after
throttling_prepend(d, e) ==
    LET m == throttling_mod_func(d, e)
        new_arr == PySlice(d, 0 - m.val, Len(d)) \o PySlice(d, 0, 0 - m.val)
    IN  IF m.exc # "" THEN Raise(m.exc)
        ELSE IF Len(new_arr) # Len(d) THEN Raise("AssertionError")
        ELSE Ok(new_arr)

throttling_swap(d, e) ==
    LET m == throttling_mod_func(d, e)
    IN  IF m.exc # "" THEN Raise(m.exc)
        ELSE Ok([i \in 1..Len(d) |->
                   IF i = m.val + 1 THEN d[1] ELSE IF i = 1 THEN d[m.val + 1] ELSE d[i]])

----------------------------------------------------------------------------
(* Pure-function harness: every primitive on drawn inputs *)

CallThrottlingReverse ==
    /\ call = NoCall
    /\ call' = [op |-> "throttling_reverse", out |-> throttling_reverse(arg.arr)]
    /\ UNCHANGED <<js, status, cipher_fields, arg, ref, first_n, threads, writes>>

CallThrottlingPush ==
    /\ call = NoCall
    /\ call' = [op |-> "throttling_push", out |-> throttling_push(arg.arr, arg.b)]
    /\ UNCHANGED <<js, status, cipher_fields, arg, ref, first_n, threads, writes>>

CallThrottlingUnshift ==
    /\ call = NoCall
    /\ call' = [op |-> "throttling_unshift", out |-> throttling_unshift(arg.arr, arg.b)]
    /\ UNCHANGED <<js, status, cipher_fields, arg, ref, first_n, threads, writes>>

CallThrottlingNestedSplice ==
    /\ call = NoCall
    /\ call' = [op |-> "throttling_nested_splice",
                out |-> throttling_nested_splice(arg.arr, arg.b)]
    /\ UNCHANGED <<js, status, cipher_fields, arg, ref, first_n, threads, writes>>

CallThrottlingPrepend ==
    /\ call = NoCall
    /\ call' = [op |-> "throttling_prepend", out |-> throttling_prepend(arg.arr, arg.b)]
    /\ UNCHANGED <<js, status, cipher_fields, arg, ref, first_n, threads, writes>>

CallThrottlingSwap ==
    /\ call = NoCall
    /\ call' = [op |-> "throttling_swap", out |-> throttling_swap(arg.arr, arg.b)]
    /\ UNCHANGED <<js, status, cipher_fields, arg, ref, first_n, threads, writes>>

NextThr ==
    \/ CallReverse \/ CallSplice \/ CallSwap
    \/ CallThrottlingReverse \/ CallThrottlingPush \/ CallThrottlingUnshift
    \/ CallThrottlingNestedSplice \/ CallThrottlingPrepend \/ CallThrottlingSwap

SpecThr == InitPrim /\ [][NextThr]_vars

\* js_splice on a drawn list, start, delete_count (None when omitted) and items
MaxItems == 2      \* most items passed to js_splice
MaxDelete == 4     \* largest delete_count passed to js_splice
ItemChars == {"x", "y"}

\* delete_count=None, the default of an omitted argument
Omitted == [none |-> TRUE, val |-> 0]

InitJsSplice ==
    /\ Idle
    /\ js = NoJs
    /\ arg \in [arr : SeqsUpTo(Chars, MaxLen), start : (0 - MaxB)..MaxB,
                 delete_count : {Omitted} \cup {Some(n) : n \in -1..MaxDelete},
                 items : SeqsUpTo(ItemChars, MaxItems)]

CallJsSplice ==
    /\ call = NoCall
    /\ call' = [op |-> "js_splice",
                \* the value of start after the try block
                start |-> js_splice_start(arg.arr, arg.start),
                out |-> js_splice(arg.arr, arg.start, arg.delete_count, arg.items)]
    /\ UNCHANGED <<js, status, cipher_fields, arg, ref, first_n, threads, writes>>

NextJsSplice == CallJsSplice

SpecJsSplice == InitJsSplice /\ [][NextJsSplice]_vars

----------------------------------------------------------------------------
(* calculate_n.  An entry of throttling_array is [kind, num, name, items]: *)
(*   "int"   the integer num            "str"  the string name             *)
(*   "func"  the function called name   "list" a list left by an earlier   *)
(*   "n"     the list of the running           call, items its elements    *)
(*           call, put in for "b"                                          *)
(* A step of throttling_plan is a tuple of two or three indices, each      *)
(* written as decimal digits.                                              *)

IntEntry(k) == [kind |-> "int", num |-> k, name |-> "", items |-> <<>>]
StrEntry(s) == [kind |-> "str", num |-> 0, name |-> s, items |-> <<>>]
FuncEntry(f) == [kind |-> "func", num |-> 0, name |-> f, items |-> <<>>]
ListEntry(xs) == [kind |-> "list", num |-> 0, name |-> "", items |-> xs]
NEntry == [kind |-> "n", num |-> 0, name |-> "", items |-> <<>>]

callable(x) == x.kind = "func"

IsList(x) == x.kind \in {"n", "list"}

\* curr_func(first_arg) or curr_func(first_arg, second_arg), args the one or
\* two entries passed and n the elements of the caller's list: the outcome,
\* val the elements of first_arg after the call
throttling_call(fn, args, n) ==
    LET d == IF args[1].kind = "n" THEN n ELSE args[1].items
    IN  CASE fn = "throttling_reverse" ->
               IF Len(args) # 1 THEN Raise("TypeError")
               ELSE IF ~IsList(args[1]) THEN Raise("AttributeError")
               ELSE throttling_reverse(d)
          [] fn = "throttling_swap" ->
               IF Len(args) # 2 THEN Raise("TypeError")
               ELSE IF ~IsList(args[1]) \/ args[2].kind # "int" THEN Raise("TypeError")
               ELSE throttling_swap(d, args[2].num)

\* the plan loop with a step whose target is not callable passed over
RECURSIVE run_throttling_skip(_, _, _, _)
run_throttling_skip(array, n, i, ran) ==
    IF i > Len(throttling_plan) THEN [exc |-> "", n |-> n, array |-> array, ran |-> ran]
    ELSE LET step == throttling_plan[i]
             curr_func == array[int(step[1]) + 1]
             first_arg == array[int(step[2]) + 1]
             args == IF Len(step) = 2 THEN <<first_arg>>
                     ELSE <<first_arg, array[int(step[3]) + 1]>>
             r == throttling_call(curr_func.name, args, n)
         IN  IF ~callable(curr_func) THEN run_throttling_skip(array, n, i + 1, ran)
             ELSE IF r.exc # "" THEN [exc |-> r.exc, n |-> n, array |-> array, ran |-> ran]
             ELSE IF first_arg.kind = "n"
             THEN run_throttling_skip(array, r.val, i + 1, ran + 1)
             ELSE run_throttling_skip([array EXCEPT ![int(step[2]) + 1].items = r.val],
                                      n, i + 1, ran + 1)

\* the plan loop from step i on: the exception, the caller's list, the array
\* and the number of steps whose function has returned
RECURSIVE run_throttling(_, _, _, _)
run_throttling(array, n, i, ran) ==
    IF i > Len(throttling_plan) THEN [exc |-> "", n |-> n, array |-> array, ran |-> ran]
    ELSE LET step == throttling_plan[i]
             stop(e) == [exc |-> e, n |-> n, array |-> array, ran |-> ran]
             InRange(k) == int(step[k]) < Len(array)
             curr_func == array[int(step[1]) + 1]
             first_arg == array[int(step[2]) + 1]
             args == IF Len(step) = 2 THEN <<first_arg>>
                     ELSE <<first_arg, array[int(step[3]) + 1]>>
             r == throttling_call(curr_func.name, args, n)
         IN  IF ~InRange(1) THEN stop("IndexError")
             ELSE IF ~callable(curr_func) THEN stop("ExtractError")
             ELSE IF ~InRange(2) THEN stop("IndexError")
             ELSE IF Len(step) > 3 THEN run_throttling(array, n, i + 1, ran)
             ELSE IF Len(step) = 3 /\ ~InRange(3) THEN stop("IndexError")
             ELSE IF r.exc # "" THEN stop(r.exc)
             ELSE IF first_arg.kind = "n"
             THEN run_throttling(array, r.val, i + 1, ran + 1)
             ELSE run_throttling([array EXCEPT ![int(step[2]) + 1].items = r.val],
                                 n, i + 1, ran + 1)

\* calculate_n(initial_n): the outcome, calculated_n and throttling_array
\* after the call, and the number of plan steps run
calculate_n(initial_n) ==
    IF Truthy(calculated_n)
    THEN [out |-> Ok(calculated_n.val), calculated_n |-> calculated_n,
          array |-> throttling_array, ran |-> 0]
    ELSE LET array == [i \in 1..Len(throttling_array) |->
                         IF throttling_array[i] = StrEntry("b") THEN NEntry
                         ELSE throttling_array[i]]
             run == run_throttling(array, initial_n, 1, 0)
             \* the entries put in for "b" are the caller's list as the call left it
             left == [i \in 1..Len(run.array) |->
                        IF run.array[i].kind = "n" THEN ListEntry(run.n)
                        ELSE run.array[i]]
         IN  IF run.exc # ""
             THEN [out |-> Raise(run.exc), calculated_n |-> calculated_n, array |-> left,
                   ran |-> run.ran]
             ELSE [out |-> Ok(join(run.n)), calculated_n |-> Some(join(run.n)),
                   array |-> left, ran |-> run.ran]

----------------------------------------------------------------------------
(* The Cipher object: construction, then any sequence of calls *)

\* what resolve_array_transform_plan returned to __init__ (its debug log)
resolved_log(script) ==
    LET raw == get_transform_plan(script)
    IN  IF raw.exc # "" THEN [plan |-> <<>>, var |-> ""]
        ELSE resolve_array_transform_plan(script, raw.val)

Construct ==
    /\ status = "new"
    /\ \E c \in {Cipher(js)}, resolved \in {resolved_log(js)} :
           IF c.exc # ""
           THEN /\ status' = "raised"
                /\ call' = [op |-> "__init__", out |-> Raise(c.exc), resolved |-> resolved]
                /\ UNCHANGED cipher_fields
           ELSE /\ status' = "ready"
                /\ call' = [op |-> "__init__", out |-> Ok(<<>>), resolved |-> resolved]
                /\ transform_plan' = c.val.transform_plan
                /\ transform_map' = c.val.transform_map
                /\ throttling_plan' = get_throttling_plan(js)
                /\ throttling_array' = get_throttling_function_array(js)
                /\ calculated_n' = None
                /\ UNCHANGED parse_cache
    /\ UNCHANGED <<js, arg, ref, first_n, threads, writes>>

GetSignature(ciphered_signature, remember) ==
    /\ status = "ready"
    /\ LET r == get_signature(ciphered_signature)
           c == [op |-> "get_signature", in |-> ciphered_signature, out |-> r.out,
                 trace |-> r.trace, hits |-> r.hits]
       IN  /\ call' = c
           /\ parse_cache' = r.memo
           /\ ref' = IF remember THEN Some(c) ELSE ref
    /\ UNCHANGED <<js, status, transform_plan, transform_map, throttling_plan,
                   throttling_array, calculated_n, arg, first_n, threads, writes>>

CalculateN(initial_n) ==
    /\ status = "ready"
    /\ LET r == calculate_n(initial_n)
       IN  /\ call' = [op |-> "calculate_n", in |-> initial_n, out |-> r.out, ran |-> r.ran]
           /\ calculated_n' = r.calculated_n
           /\ throttling_array' = r.array
           /\ first_n' = IF first_n.none /\ r.out.exc = "" THEN Some(r.out.val) ELSE first_n
    /\ UNCHANGED <<js, status, transform_plan, transform_map, throttling_plan,
                   parse_cache, arg, ref, threads, writes>>

----------------------------------------------------------------------------
(* Scripts *)

Body(core, params) ==
    [closed |-> TRUE, params |-> params, core |-> core, ws |-> FALSE, longid |-> FALSE]

Entries(params, quoted) ==
    << [name |-> "AJ", quoted |-> quoted, body |-> Body("reverse", params)],
       [name |-> "VR", quoted |-> quoted, body |-> Body("splice", params)],
       [name |-> "kT", quoted |-> quoted, body |-> Body("swap", params)] >>

\* var DE={AJ:function(a){a.reverse()},VR:function(a){a.splice(0,b)},kT:...};
StdObj == [var |-> "DE", entries |-> Entries(1, FALSE)]
\* the same with function(a,b) headers, as player scripts write them
TwoParamObj == [var |-> "DE", entries |-> Entries(2, FALSE)]
\* the same with quoted keys: "AJ":function(a){...}
QuotedObj == [var |-> "DE", entries |-> Entries(1, TRUE)]

\* G=["VR","AJ","kT"]
StdArr == [var |-> "G",
           items |-> << [name |-> "VR", q |-> "\""], [name |-> "AJ", q |-> "\""],
                        [name |-> "kT", q |-> "\""] >>]

DefSite == [shape |-> "def", name |-> "Xy", aux |-> ""]

ScenarioInput == <<"A", "B", "C", "D", "E", "F">>
\* swap 2, reverse, splice 1
ScenarioPlan == << Dot("DE", "kT", <<2>>), Dot("DE", "AJ", <<0>>), Dot("DE", "VR", <<1>>) >>

Bodies ==
    { ScenarioPlan,
      << Dot("DE", "AJ", <<1>>), Dot("DE", "zz", <<1>>) >>,
      << Quoted("DE", "AJ", <<0, 2>>), Decl >>,
      << Indexed("DE", "G", 2, <<1>>), Dot("DE", "AJ", <<0>>), Indexed("DE", "G", 5, <<1>>) >>,
      << Indexed("DE", "G", 0, <<1>>), Indexed("ZZ", "G", 1, <<1>>) >>,
      << Dot("DE", "VR", <<1>>), Native("a", "reverse") >>,
      << Dot("this", "AJ", <<1>>) >>,
      << Dot("DE", "VR", <<2>>), Dot("DE", "kT", <<1>>) >>,
      << Decl >> }

SiteLists ==
    { <<DefSite>>,
      << [shape |-> "set_enc", name |-> "Xy", aux |-> ""] >>,
      << [shape |-> "guard", name |-> "Xy", aux |-> "c"],
         [shape |-> "commadef", name |-> "Xy", aux |-> ""] >> }

IndexedBodies == {body \in Bodies : body[1].shape = "indexed"}

Scripts ==
    [sites : SiteLists, body : {ScenarioPlan}, obj : {StdObj}, arr : {NoArr}]
    \cup [sites : {<<DefSite>>}, body : Bodies,
          obj : {StdObj, TwoParamObj, QuotedObj, NoObj}, arr : {NoArr}]
    \cup [sites : {<<DefSite>>}, body : IndexedBodies,
          obj : {StdObj, TwoParamObj, QuotedObj, NoObj}, arr : {StdArr}]

MaxCallLen == 1
CallChars == {"A", "B"}
CallInputs == SeqsUpTo(CallChars, MaxCallLen)

\* [], ['7'], [''], ['7', '3', 'k', 'Q']
NInputs == { <<>>, << <<"7">> >>, << <<>> >>, << <<"7">>, <<"3">>, <<"k">>, <<"Q">> >> }

Init ==
    /\ Idle
    /\ arg = NoArg
    /\ js \in Scripts

Next ==
    \/ Construct
    \/ \E s \in CallInputs, remember \in BOOLEAN : GetSignature(s, remember)
    \/ \E n \in NInputs : CalculateN(n)

Spec == Init /\ [][Next]_vars

\* calculate_n on a Cipher whose throttling fields are filled: the array
\*   [throttling_reverse, "b", throttling_swap, 1]
\* and plans of up to MaxSteps steps
MaxSteps == 3

NArray ==
    << FuncEntry("throttling_reverse"), StrEntry("b"), FuncEntry("throttling_swap"),
       IntEntry(1) >>

StepChoices ==
    { << <<0>>, <<1>> >>,           \* ("0", "1"): throttling_reverse(n)
      << <<2>>, <<1>>, <<3>> >>,    \* ("2", "1", "3"): throttling_swap(n, 1)
      << <<3>>, <<1>> >>,           \* ("3", "1"): the int 1 in the place of a function
      << <<1>>, <<1>>, <<3>> >>,    \* ("1", "1", "3"): the list in the place of a function
      << <<0>>, <<3>> >>,           \* ("0", "3"): throttling_reverse(1)
      << <<2>>, <<1>> >> }          \* ("2", "1"): throttling_swap(n)

InitN ==
    /\ js = NoJs
    /\ status = "ready"
    /\ transform_plan = <<>>
    /\ transform_map = <<>>
    /\ throttling_plan \in SeqsUpTo(StepChoices, MaxSteps)
    /\ throttling_array = NArray
    /\ calculated_n = None
    /\ parse_cache = <<>>
    /\ arg = NoArg
    /\ call = NoCall
    /\ ref = None
    /\ first_n = None
    /\ threads = NoThreads
    /\ writes = 0

NextN == \E n \in NInputs : CalculateN(n)

SpecN == InitN /\ [][NextN]_vars

\* plans of calls to the three primitives of StdObj; reverse ignores its operand
PrimitiveCalls ==
    {Dot("DE", "AJ", <<0>>)} \cup {Dot("DE", name, <<n>>) : name \in {"VR", "kT"}, n \in 0..MaxArg}

SigScripts ==
    {[sites |-> <<DefSite>>, body |-> plan, obj |-> StdObj, arr |-> NoArr] :
        plan \in (SeqsUpTo(PrimitiveCalls, MaxPlan) \ {<<>>}) \cup {ScenarioPlan}}

SigInputs == SeqsUpTo(Chars, MaxLen) \cup {ScenarioInput}

InitSig ==
    /\ Idle
    /\ arg = NoArg
    /\ js \in SigScripts

NextSig ==
    \/ Construct
    \/ \E s \in SigInputs : call.op = "__init__" /\ GetSignature(s, FALSE)

SpecSig == InitSig /\ [][NextSig]_vars

----------------------------------------------------------------------------
(* One Cipher shared by threads *)

(* calculate_n holds no lock.  Under the interpreter lock a thread switch  *)
(* can fall between any two of its statements, so a call is a frame that   *)
(* moves through them one at a time:                                       *)
(*   "guard"   the test of self.calculated_n                               *)
(*   "cached"  the read of self.calculated_n that the guard returns        *)
(*   "loops"   the fill of the "b" entries and the plan loop               *)
(*   "store"   the assignment of self.calculated_n                         *)
(*   "return"  the read of self.calculated_n that the call returns         *)
(* The two loops run over throttling_array and throttling_plan, which a    *)
(* constructed Cipher holds empty, so they touch no shared field and are   *)
(* one step.                                                               *)

Threads == {"t1", "t2"}

IdleFrame == [pc |-> "idle", initial_n |-> <<>>, out |-> Ok(<<>>)]

\* ['7'], ['3'], ['k', 'Q']: the joined str of each is not empty
ThreadInputs == { << <<"7">> >>, << <<"3">> >>, << <<"k">>, <<"Q">> >> }

\* thread t calls calculate_n(n), once, with a list no other thread passed
EnterCalculateN(t, n) ==
    /\ status = "ready"
    /\ threads[t].pc = "idle"
    /\ \A u \in Threads \ {t} : threads[u].pc = "idle" \/ threads[u].initial_n # n
    /\ threads' = [threads EXCEPT ![t] = [pc |-> "guard", initial_n |-> n, out |-> Ok(<<>>)]]
    /\ UNCHANGED <<js, status, cipher_fields, arg, call, ref, first_n, writes>>

\* if self.calculated_n:
GuardCalculatedN(t) ==
    /\ threads[t].pc = "guard"
    /\ threads' = [threads EXCEPT ![t].pc =
                      IF Truthy(calculated_n) THEN "cached" ELSE "loops"]
    /\ UNCHANGED <<js, status, cipher_fields, arg, call, ref, first_n, writes>>

\* return self.calculated_n, under the guard
ReturnCached(t) ==
    /\ threads[t].pc = "cached"
    /\ threads' = [threads EXCEPT ![t].pc = "done", ![t].out = Ok(calculated_n.val)]
    /\ UNCHANGED <<js, status, cipher_fields, arg, call, ref, first_n, writes>>

\* the fill of the "b" entries with the thread's list, then the plan loop
RunLoops(t) ==
    /\ threads[t].pc = "loops"
    /\ LET array == [i \in 1..Len(throttling_array) |->
                       IF throttling_array[i] = StrEntry("b") THEN NEntry
                       ELSE throttling_array[i]]
       IN  \E run \in {run_throttling(array, threads[t].initial_n, 1, 0)} :
              /\ throttling_array' = [i \in 1..Len(run.array) |->
                                        IF run.array[i].kind = "n" THEN ListEntry(run.n)
                                        ELSE run.array[i]]
              /\ threads' = [threads EXCEPT
                                ![t].initial_n = run.n,
                                ![t].pc = IF run.exc # "" THEN "done" ELSE "store",
                                ![t].out = IF run.exc # "" THEN Raise(run.exc) ELSE Ok(<<>>)]
    /\ UNCHANGED <<js, status, transform_plan, transform_map, throttling_plan,
                   calculated_n, parse_cache, arg, call, ref, first_n, writes>>

\* self.calculated_n = "".join(initial_n)
StoreCalculatedN(t) ==
    /\ threads[t].pc = "store"
    /\ calculated_n' = Some(join(threads[t].initial_n))
    /\ writes' = writes + 1
    /\ threads' = [threads EXCEPT ![t].pc = "return"]
    /\ UNCHANGED <<js, status, transform_plan, transform_map, throttling_plan,
                   throttling_array, parse_cache, arg, call, ref, first_n>>

\* return self.calculated_n, at the end of the call
ReturnCalculatedN(t) ==
    /\ threads[t].pc = "return"
    /\ threads' = [threads EXCEPT ![t].pc = "done", ![t].out = Ok(calculated_n.val)]
    /\ UNCHANGED <<js, status, cipher_fields, arg, call, ref, first_n, writes>>

ThreadScripts ==
    [sites : {<<DefSite>>}, body : {ScenarioPlan, << Dot("DE", "AJ", <<1>>) >>},
     obj : {StdObj}, arr : {NoArr}]

InitThreads ==
    /\ status = "new"
    /\ transform_plan = <<>>
    /\ transform_map = <<>>
    /\ throttling_plan = <<>>
    /\ throttling_array = <<>>
    /\ calculated_n = None
    /\ parse_cache = <<>>
    /\ call = NoCall
    /\ ref = None
    /\ first_n = None
    /\ threads = [t \in Threads |-> IdleFrame]
    /\ writes = 0
    /\ arg = NoArg
    /\ js \in ThreadScripts

NextThreads ==
    \/ Construct
    \/ \E t \in Threads, n \in ThreadInputs : EnterCalculateN(t, n)
    \/ \E t \in Threads : GuardCalculatedN(t)
    \/ \E t \in Threads : ReturnCached(t)
    \/ \E t \in Threads : RunLoops(t)
    \/ \E t \in Threads : StoreCalculatedN(t)
    \/ \E t \in Threads : ReturnCalculatedN(t)

SpecThreads == InitThreads /\ [][NextThreads]_vars

----------------------------------------------------------------------------
(* C2: for every plan of reverse, splice and swap calls and every input,   *)
(* the output of a get_signature call that returns has length              *)
(* max(0, len(input) - sum of the splice operands of the plan).            *)

RECURSIVE SpliceSum(_)
SpliceSum(plan) ==
    IF plan = <<>> THEN 0
    ELSE (IF transform_map[Head(plan).name] = "splice" THEN int(Head(plan).arg) ELSE 0)
         + SpliceSum(Tail(plan))

C2_LengthLaw ==
    (call.op = "get_signature" /\ call.out.exc = "") =>
        Len(call.out.val) = Max(0, Len(call.in) - SpliceSum(transform_plan))

----------------------------------------------------------------------------
(* C9: get_signature applies the calls of transform_plan in plan order,    *)
(* each primitive with its own operand to the buffer the previous call     *)
(* left, and returns the join of the last buffer; plan [swap 2, reverse,   *)
(* splice 1] on "ABCDEF" gives "CBADEF", "FEDABC" and the output "EDABC".  *)

C9_AppliesInPlanOrder ==
    (call.op = "get_signature" /\ call.out.exc = "") =>
        /\ Len(call.trace) = Len(transform_plan)
        /\ \A i \in 1..Len(transform_plan) :
              LET before == IF i = 1 THEN call.in ELSE call.trace[i - 1]
                  fn == transform_map[transform_plan[i].name]
                  n == int(transform_plan[i].arg)
              IN  call.trace[i] = CASE fn = "reverse" -> reverse(before, n)
                                    [] fn = "splice" -> splice(before, n)
                                    [] fn = "swap" -> swap(before, n).val
        /\ call.out.val = call.trace[Len(transform_plan)]
        /\ (js.body = ScenarioPlan /\ call.in = ScenarioInput) =>
              /\ call.trace = << <<"C", "B", "A", "D", "E", "F">>,
                                 <<"F", "E", "D", "A", "B", "C">>,
                                 <<"E", "D", "A", "B", "C">> >>
              /\ call.out.val = <<"E", "D", "A", "B", "C">>

C9_Witness ==
    /\ call.op = "get_signature"
    /\ js.body = ScenarioPlan
    /\ call.in = ScenarioInput
    /\ call.out = Ok(<<"E", "D", "A", "B", "C">>)

----------------------------------------------------------------------------
(* C3: once the first calculate_n call has returned, every later           *)
(* calculate_n call returns the value the first call returned, whatever    *)
(* its input and also when the first input was empty, and calculated_n     *)
(* keeps that value.                                                       *)

C3_FirstResultSticks ==
    ~first_n.none =>
        /\ calculated_n.val = first_n.val
        /\ call.op = "calculate_n" => (call.out.exc = "" /\ call.out.val = first_n.val)

----------------------------------------------------------------------------
(* C4: once the constructor has returned, every name parse_function yields *)
(* for an item of transform_plan is a key of transform_map, and no         *)
(* get_signature call fails on the map lookup or on parsing a plan item.   *)

C4_PlanNamesInMap ==
    status = "ready" =>
        /\ \A i \in 1..Len(transform_plan) :
              /\ parse_function(transform_plan[i]).exc = ""
              /\ parse_function(transform_plan[i]).val.fn_name \in DOMAIN transform_map
        /\ call.op = "get_signature" => call.out.exc \notin {"KeyError", "RegexMatchError"}

----------------------------------------------------------------------------
(* C8: two get_signature calls with the same ciphered signature have the   *)
(* same outcome, whatever get_signature and calculate_n calls ran before   *)
(* or between them and whether or not the parse_function memo served them. *)

C8_Deterministic ==
    (call.op = "get_signature" /\ ~ref.none /\ ref.val.in = call.in) =>
        /\ call.out.exc = ref.val.out.exc
        /\ call.out.val = ref.val.out.val

C8_Witness ==
    /\ call.op = "get_signature"
    /\ ~ref.none
    /\ ref.val.in = call.in
    /\ call.in # <<>>
    /\ call.out.exc = ""
    /\ ref.val.hits = 0
    /\ call.hits > 0
    /\ Truthy(calculated_n)

----------------------------------------------------------------------------
(* C11: for a Cipher built from any script, throttling_plan and            *)
(* throttling_array are empty once the constructor has returned, and the   *)
(* first calculate_n(xs) call returns the concatenation of xs;             *)
(* calculate_n(['7','3','k','Q']) returns "73kQ".                          *)

C11_EmptyThrottlingJoins ==
    [][ /\ (status = "new" /\ status' = "ready") =>
               (throttling_plan' = <<>> /\ throttling_array' = <<>>)
        /\ (status = "ready" /\ first_n.none /\ call'.op = "calculate_n") =>
               /\ call'.out = Ok(join(call'.in))
               /\ first_n' = Some(join(call'.in))
               /\ (call'.in = << <<"7">>, <<"3">>, <<"k">>, <<"Q">> >> =>
                      call'.out.val = <<"7", "3", "k", "Q">>) ]_vars

C11_Witness ==
    /\ status = "ready"
    /\ throttling_plan = <<>>
    /\ throttling_array = <<>>
    /\ call.op = "calculate_n"
    /\ call.in = << <<"7">>, <<"3">>, <<"k">>, <<"Q">> >>
    /\ call.out = Ok(<<"7", "3", "k", "Q">>)
    /\ first_n = Some(<<"7", "3", "k", "Q">>)

----------------------------------------------------------------------------
(* C12: reverse is an involution: reverse(reverse(s)) = s for every        *)
(* sequence s, and get_signature with a plan of two reverse calls returns  *)
(* its input unchanged for every input string.                             *)

TwoReverses ==
    /\ Len(transform_plan) = 2
    /\ \A i \in 1..2 : transform_map[transform_plan[i].name] = "reverse"

C12_ReverseInvolution ==
    (call.op = "get_signature" /\ TwoReverses) =>
        /\ call.out = Ok(call.in)
        /\ Len(call.trace) = 2
        /\ reverse(reverse(call.in, 0), 0) = call.in
        /\ reverse(call.trace[1], 0) = call.in

C12_Witness ==
    /\ call.op = "get_signature"
    /\ TwoReverses
    /\ call.in = <<"A", "B", "C">>
    /\ call.trace[1] = <<"C", "B", "A">>
    /\ call.out = Ok(<<"A", "B", "C">>)

----------------------------------------------------------------------------
(* C13: when the first plan item has the shape Obj[Arr[k]](...) and the    *)
(* script holds a literal Arr=[...], resolve_array_transform_plan returns  *)
(* Obj as the object variable and a plan of the same length and order in   *)
(* which every item Obj[Arr[k]](a,N) with k inside the array is rewritten  *)
(* to Obj.<k-th entry>(a,N), and every item that is not indirected is      *)
(* unchanged.                                                              *)

RawPlan == get_transform_plan(js).val

ArrayResolved ==
    /\ call.op = "__init__"
    /\ get_transform_plan(js).exc = ""
    /\ RawPlan[1].shape = "indexed"
    /\ js.arr.var = RawPlan[1].arr
    /\ js.arr.items # <<>>

C13_ResolvesThroughArray ==
    ArrayResolved =>
        LET Obj == RawPlan[1].obj
            Arr == RawPlan[1].arr
            out == call.resolved
        IN  /\ out.var = Obj
            /\ Len(out.plan) = Len(RawPlan)
            /\ \A i \in 1..Len(RawPlan) :
                  LET item == RawPlan[i]
                  IN  /\ (item.shape = "indexed" /\ item.obj = Obj /\ item.arr = Arr
                             /\ item.k < Len(js.arr.items)) =>
                             out.plan[i] = Dot(Obj, js.arr.items[item.k + 1].name, item.arg)
                      /\ item.shape # "indexed" => out.plan[i] = item

----------------------------------------------------------------------------
(* C14: after every prefix of every transform plan over reverse, splice    *)
(* and swap, every character of the signature buffer, and so of the output *)
(* of get_signature, is a character that occurs in the input string.       *)

CharsOf(s) == {s[i] : i \in 1..Len(s)}

C14_NoNewCharacters ==
    call.op = "get_signature" =>
        /\ \A i \in 1..Len(call.trace) : CharsOf(call.trace[i]) \subseteq CharsOf(call.in)
        /\ call.out.exc = "" => CharsOf(call.out.val) \subseteq CharsOf(call.in)

C14_Witness ==
    /\ call.op = "get_signature"
    /\ transform_plan = << Dot("DE", "kT", <<1>>), Dot("DE", "VR", <<1>>) >>
    /\ call.in = <<"A", "B", "C">>
    /\ call.trace = << <<"B", "A", "C">>, <<"A", "C">> >>
    /\ call.out = Ok(<<"A", "C">>)

----------------------------------------------------------------------------
(* C15: in calculate_n, when the loop comes to a plan step whose entry     *)
(* throttling_array[step[0]] is not callable, the call raises ExtractError *)
(* at that step: no later step of the plan is executed, no value is        *)
(* returned, and calculated_n stays unset, so the failure is not memoized. *)

NotCallableSteps ==
    {i \in 1..Len(throttling_plan) :
        ~callable(throttling_array[int(throttling_plan[i][1]) + 1])}

FirstNotCallable == CHOOSE i \in NotCallableSteps : \A j \in NotCallableSteps : i <= j

C15_NotCallableRaises ==
    (call.op = "calculate_n" /\ NotCallableSteps # {}) =>
        /\ call.out.exc # ""
        /\ call.ran < FirstNotCallable
        /\ call.ran = FirstNotCallable - 1 => call.out.exc = "ExtractError"
        /\ calculated_n = None
        /\ first_n = None

C15_Witness ==
    /\ call.op = "calculate_n"
    /\ throttling_plan = << << <<0>>, <<1>> >>, << <<3>>, <<1>> >>, << <<0>>, <<1>> >> >>
    /\ call.in = << <<"7">>, <<"3">>, <<"k">>, <<"Q">> >>
    /\ call.out = Raise("ExtractError")
    /\ call.ran = 1
    /\ throttling_array[2] = ListEntry(<< <<"Q">>, <<"k">>, <<"3">>, <<"7">> >>)
    /\ calculated_n = None

----------------------------------------------------------------------------
(* C16: once the constructor has returned, no get_signature or calculate_n *)
(* call changes transform_plan, transform_map, throttling_plan or          *)
(* throttling_array, entries included; calculated_n is the only field a    *)
(* call modifies, and a get_signature call modifies no field.              *)

C16_FieldsFrozen ==
    [][ status = "ready" =>
            /\ transform_plan' = transform_plan
            /\ transform_map' = transform_map
            /\ throttling_plan' = throttling_plan
            /\ throttling_array' = throttling_array
            /\ call'.op = "get_signature" => calculated_n' = calculated_n ]_vars

C16_Witness ==
    /\ status = "ready"
    /\ call.op = "calculate_n"
    /\ calculated_n = Some(<<"7", "3", "k", "Q">>)
    /\ ~ref.none
    /\ ref.val.out.exc = ""
    /\ ref.val.in # <<>>
    /\ transform_plan = ScenarioPlan

----------------------------------------------------------------------------
(* C17: every primitive applied to an empty sequence returns, or leaves,   *)
(* an empty sequence without raising: reverse, splice and swap on [] with  *)
(* any integer operand, and throttling_unshift, throttling_prepend,        *)
(* throttling_swap and throttling_nested_splice on an empty d; so          *)
(* get_signature returns "" when a splice of the plan has emptied the      *)
(* buffer and further calls follow.                                        *)

EmptyTolerant ==
    {"reverse", "splice", "swap", "throttling_unshift", "throttling_prepend",
     "throttling_swap", "throttling_nested_splice"}

C17_EmptyStaysEmpty ==
    /\ (call.op \in EmptyTolerant /\ arg.arr = <<>>) => call.out = Ok(<<>>)
    /\ (/\ call.op = "get_signature"
        /\ \E i \in 1..Len(call.trace) :
               /\ i < Len(transform_plan)
               /\ transform_map[transform_plan[i].name] = "splice"
               /\ call.trace[i] = <<>>) => call.out = Ok(<<>>)

----------------------------------------------------------------------------
(* C18: for every list arr, every start with 0 <= start <= len(arr), every *)
(* supplied delete_count >= 0 (0 included) and every tuple of items,       *)
(* js_splice removes exactly min(delete_count, len(arr) - start) elements  *)
(* beginning at start, inserts items at start in order, returns the        *)
(* removed elements in order and leaves arr with length                    *)
(* len(arr) - removed + len(items); everything from start to the end is    *)
(* removed only when delete_count is omitted or >= len(arr) - start.       *)

C18_SpliceRemovesCount ==
    (call.op = "js_splice" /\ 0 <= arg.start /\ arg.start <= Len(arg.arr)
        /\ (~arg.delete_count.none => arg.delete_count.val >= 0)) =>
        LET rest == Len(arg.arr) - arg.start
            removed == IF arg.delete_count.none THEN rest
                       ELSE Min(arg.delete_count.val, rest)
        IN  /\ call.out.exc = ""
            /\ call.out.val = SubSeq(arg.arr, arg.start + 1, arg.start + removed)
            /\ call.out.arr = SubSeq(arg.arr, 1, arg.start) \o arg.items
                                \o SubSeq(arg.arr, arg.start + removed + 1, Len(arg.arr))
            /\ Len(call.out.arr) = Len(arg.arr) - removed + Len(arg.items)

----------------------------------------------------------------------------
(* C19: for every list arr and every integer start, negative ones          *)
(* included, the start position js_splice uses after its adjustment step   *)
(* lies in [0, len(arr)]: a start above len(arr) is clamped to len(arr)    *)
(* and a negative start is replaced by start + len(arr).                   *)

C19_StartInRange ==
    call.op = "js_splice" =>
        /\ 0 <= call.start
        /\ call.start <= Len(arg.arr)
        /\ arg.start > Len(arg.arr) => call.start = Len(arg.arr)
        /\ arg.start < 0 => call.start = arg.start + Len(arg.arr)

----------------------------------------------------------------------------
(* C20: for every non-empty list d and every integer e, negative ones      *)
(* included, throttling_nested_splice(d, e) leaves d in the state          *)
(* throttling_swap(d, e) leaves it in: with n = len(d) and                 *)
(* k = ((e mod n) + n) mod n, d[0] and d[k] are exchanged, every other     *)
(* position is unchanged and the length is kept.                           *)

C20_NestedSpliceIsSwap ==
    (call.op \in {"throttling_nested_splice", "throttling_swap"} /\ arg.arr # <<>>) =>
        LET n == Len(arg.arr)
            k == ((arg.b % n) + n) % n
        IN  /\ call.out = Ok(Exchanged(arg.arr, k))
            /\ throttling_nested_splice(arg.arr, arg.b) = throttling_swap(arg.arr, arg.b)

C20_Witness ==
    /\ call.op = "throttling_nested_splice"
    /\ arg = [arr |-> <<"A", "B", "C">>, b |-> -1]
    /\ call.out = Ok(<<"C", "B", "A">>)

----------------------------------------------------------------------------
(* C21: when one constructed Cipher is shared by two threads that call     *)
(* calculate_n concurrently with different inputs, under every             *)
(* interleaving of the two calls calculated_n is assigned at most once and *)
(* both calls return the same value.                                       *)

Returned(t) == threads[t].pc = "done" /\ threads[t].out.exc = ""

C21_MemoSlotGuarded ==
    /\ writes <= 1
    /\ \A t, u \in Threads :
          (Returned(t) /\ Returned(u)) => threads[t].out.val = threads[u].out.val

----------------------------------------------------------------------------
(* C22: when the first plan item is array-indirected and no Arr literal is *)
(* found in the script, then if the Obj literal is found with a function   *)
(* entry the resolution returns Obj and a plan of the same length and      *)
(* order in which every call Obj[Arr[k]](a,N) is rewritten to              *)
(* Obj.<first function name of the literal>(a,N), whatever k is, and every *)
(* item that is not indirected is unchanged; if the literal or its         *)
(* functions are not found the plan is returned unchanged with no object   *)
(* variable.                                                               *)

\* the constructor reached the fallback: an indirected first item, no array
FallbackTaken ==
    /\ call.op = "__init__"
    /\ get_transform_plan(js).exc = ""
    /\ RawPlan[1].shape = "indexed"
    /\ (js.arr.var # RawPlan[1].arr \/ js.arr.items = <<>>)

\* the literal of the first item's object is found and the search for
\* name:function( in it finds a name
FunctionsFound ==
    /\ js.obj.var = RawPlan[1].obj
    /\ js.obj.entries # <<>>
    /\ ~js.obj.entries[1].quoted

C22_FallbackUsesFirstFunction ==
    FallbackTaken =>
        LET Obj == RawPlan[1].obj
            out == call.resolved
        IN  IF FunctionsFound
            THEN /\ out.var = Obj
                 /\ Len(out.plan) = Len(RawPlan)
                 /\ \A i \in 1..Len(RawPlan) :
                       LET item == RawPlan[i]
                       IN  /\ (item.shape = "indexed" /\ item.obj = Obj) =>
                                  out.plan[i] = Dot(Obj, js.obj.entries[1].name, item.arg)
                           /\ item.shape # "indexed" => out.plan[i] = item
            ELSE /\ out.var = ""
                 /\ out.plan = RawPlan

C22_Witness ==
    /\ FallbackTaken
    /\ FunctionsFound
    /\ RawPlan = << Indexed("DE", "G", 2, <<1>>), Dot("DE", "AJ", <<0>>),
                    Indexed("DE", "G", 5, <<1>>) >>
    /\ call.resolved = [plan |-> << Dot("DE", "AJ", <<1>>), Dot("DE", "AJ", <<0>>),
                                    Dot("DE", "AJ", <<1>>) >>,
                        var |-> "DE"]

====
